---- MODULE Spec2Model ----
(***************************************************************************)
(* Japanese text analysis tool: the Streamlit script app.py and the        *)
(* helpers of nlp_processing.py, as a state machine.                       *)
(*                                                                         *)
(* One script rerun (app.py top to bottom) is one action.  A rerun is      *)
(* triggered by the session start, a text edit, a file upload or removal,  *)
(* or a press of the Run button.  Python values are modelled as:           *)
(*   str            sequence of one-character strings                      *)
(*   None (handle)  the string "None"                                      *)
(*   list           a sequence; a list nested in a list is the record      *)
(*                  [kind |-> "list", items |-> <<...>>]                   *)
(*   dict           a record with kind |-> "dict"                          *)
(***************************************************************************)
EXTENDS Integers, Sequences, FiniteSets, TLC

\* ---------------------------------------------------------------- bounds
MaxReruns == 5
MaxTokens == 3
MaxTopN == 2
MaxLines == 2
MaxLineLen == 2
MaxClasses == 2
MaxScore == 2

\* ------------------------------------------------------------ text values
Chars == {" ", "a"}
InvalidByte == "xFF"
Bytes == {"a", InvalidByte}

SeqsUpTo(S, n) == UNION {[1..k -> S] : k \in 0..n}

\* what the user can type, and the bytes a file can hold
Texts == {<<>>, <<" ">>, <<"a">>, <<" ", "a">>}
FileContents == {<<>>, <<"a">>, <<InvalidByte>>, <<"a", InvalidByte>>}

Newline == "\n"
IsSpace(c) == c \in {" ", Newline}

RECURSIVE LStrip(_)
LStrip(s) ==
    IF s = <<>> THEN s
    ELSE IF IsSpace(Head(s)) THEN LStrip(Tail(s)) ELSE s

RECURSIVE RStrip(_)
RStrip(s) ==
    IF s = <<>> THEN s
    ELSE IF IsSpace(s[Len(s)]) THEN RStrip(SubSeq(s, 1, Len(s) - 1)) ELSE s

\* str.strip()
strip(s) == RStrip(LStrip(s))

\* bytes.decode("utf-8"): raises on a byte that is not valid UTF-8
decode_utf8(bytes) ==
    IF \E i \in 1..Len(bytes) : bytes[i] = InvalidByte
    THEN [raised |-> TRUE, value |-> <<>>]
    ELSE [raised |-> FALSE, value |-> bytes]

NoFile == [present |-> FALSE, bytes |-> <<>>]
File(b) == [present |-> TRUE, bytes |-> b]

\* ------------------------------------------------------------- the models
Loaders == {"sentiment", "embedding", "keybert", "pos"}
Features == {"sentiment", "keyword", "pos"}
LoadOutcomes == {"ok", "OSError", "Exception"}

\* what a pipeline call can do: raise, or return a value
Dict(l, s) == [kind |-> "dict", label |-> l, score |-> s]
List(items) == [kind |-> "list", items |-> items]
FlatScores == <<Dict("positive", 2), Dict("negative", 1)>>
SentimentReturns == {FlatScores, <<List(FlatScores)>>, <<List(<<>>)>>}
KeywordReturns == {<<>>, << <<"a", 1>> >>}
Token(t, l, p, g) == [text |-> t, lemma_ |-> l, pos_ |-> p, tag_ |-> g]
\* a label is a string of characters; "-" separates the segments of a path
UDNoun == <<"N">>
UDNounPath == <<"N", "-", "p">>
UDVerb == <<"V">>
TagNoun == <<"m", "-", "f">>
TagVerb == <<"d", "-", "i">>
DocReturns == {<<Token("a", "a", UDNoun, TagNoun)>>}

Raises == [raised |-> TRUE, value |-> <<>>]
Returns(v) == [raised |-> FALSE, value |-> v]
Behaviours ==
    [sentiment : {Raises} \cup {Returns(v) : v \in SentimentReturns},
     keyword : {Raises} \cup {Returns(v) : v \in KeywordReturns},
     pos : {Raises} \cup {Returns(v) : v \in DocReturns}]

VARIABLES
    cache,              \* st.cache_resource: loader -> "miss" | "None" | "model"
    load_calls,         \* loader -> times its body has executed
    loader_reports,     \* loader -> failure messages its body has emitted
    sidebar_reports,    \* loader -> sidebar failure reports app.py has emitted
    reruns,             \* script runs so far
    input_text_area,    \* widget state: the text area
    uploaded_file,      \* widget state: the file uploader
    pressed,            \* st.button returned True in the last rerun
    button_rendered,    \* the last rerun reached st.button
    final_input_text,   \* of the last rerun
    sentiment_results,  \* st.session_state
    keyword_results,
    pos_results,
    computed_from,      \* feature -> the text its stored result was computed from
    call_log,           \* model calls of the last rerun, in order
    messages,           \* st.error / st.warning / st.info / st.success of the last rerun
    panels,             \* what the results section of the last rerun shows
    had_failure,        \* an earlier rerun met a failed analysis or file decode
    kw_doc,             \* keyword extractor: the analyzer's tokens of one text
    kw_top_n,           \*   its top_n
    kw_allowed,         \*   its allowed coarse categories
    kw_output,          \*   what it returned
    kw_done,            \*   it has returned
    sw_file,            \* stop-word loader: the file at filepath
    sw_result,          \*   what it returned
    sw_done,            \*   it has returned
    sent_text,          \* sentiment panel: the input text of the rerun
    sent_handle,        \*   the sentiment model handle
    sent_stored,        \*   st.session_state.sentiment_results
    sent_panel,         \*   what the panel shows
    sent_done           \*   the display section has run

appVars == <<cache, load_calls, loader_reports, sidebar_reports, reruns,
             input_text_area, uploaded_file, pressed, button_rendered,
             final_input_text, sentiment_results, keyword_results, pos_results,
             computed_from, call_log, messages, panels, had_failure>>

kwVars == <<kw_doc, kw_top_n, kw_allowed, kw_output, kw_done>>
swVars == <<sw_file, sw_result, sw_done>>

sentVars == <<sent_text, sent_handle, sent_stored, sent_panel, sent_done>>

vars == <<appVars, kwVars, swVars, sentVars>>

KwIdle ==
    /\ kw_doc = <<>>
    /\ kw_top_n = 1
    /\ kw_allowed = {}
    /\ kw_output = <<>>
    /\ kw_done = FALSE

SwIdle ==
    /\ sw_file = [status |-> "missing", lines |-> <<>>]
    /\ sw_result = [raised |-> FALSE, value |-> <<>>, msgs |-> {}]
    /\ sw_done = FALSE

SentIdle ==
    /\ sent_text = <<>>
    /\ sent_handle = "None"
    /\ sent_stored = <<>>
    /\ sent_panel = [kind |-> "hidden", rows |-> <<>>]
    /\ sent_done = FALSE

\* ------------------------------------------------- nlp_processing.py: loaders
Loaded(h, m) == [ret |-> h, msgs |-> m]

load_sentiment_model_definition(outcome) ==
    IF outcome = "ok" THEN Loaded("model", {})
    ELSE Loaded("None", {"st.error: sentiment model load"})

load_embedding_model_for_keybert_definition(outcome) ==
    IF outcome = "ok" THEN Loaded("model", {})
    ELSE Loaded("None", {"st.error: embedding model load"})

\* without the check of the embedding model
load_keybert_unchecked(embedding_model, outcome) ==
    IF outcome = "ok" THEN Loaded("model", {})
    ELSE Loaded("None", {"st.error: KeyBERT model load"})

load_keybert_model_definition(embedding_model, outcome) ==
    IF embedding_model = "None"
    THEN Loaded("None", {"st.warning: no embedding model, KeyBERT not loaded"})
    ELSE IF outcome = "ok" THEN Loaded("model", {})
    ELSE Loaded("None", {"st.error: KeyBERT model load"})

load_pos_model_definition(outcome) ==
    IF outcome = "ok" THEN Loaded("model", {})
    ELSE IF outcome = "OSError" THEN Loaded("None", {"st.error: GiNZA model not found"})
    ELSE Loaded("None", {"st.error: POS model load"})

\* without the decorator: the body runs on every call
cache_resource_uncached(entry, body) ==
    [ret |-> body.ret, executed |-> TRUE, msgs |-> body.msgs]

\* @st.cache_resource: the body runs on a miss, and what it returned (None
\* included) is handed back on every later call
cache_resource(entry, body) ==
    IF entry = "miss"
    THEN [ret |-> body.ret, executed |-> TRUE, msgs |-> body.msgs]
    ELSE [ret |-> entry, executed |-> FALSE, msgs |-> {}]

\* app.py: the sidebar report of one model after its load call
SidebarReport(loader, handle, embedding_handle) ==
    IF handle # "None" THEN "success"
    ELSE IF loader = "keybert" /\ embedding_handle = "None" THEN "warning"
    ELSE "error"

\* app.py: the model loading block
LoadBlock(c, outcomes) ==
    LET s == cache_resource(c["sentiment"],
                 load_sentiment_model_definition(outcomes["sentiment"]))
        e == cache_resource(c["embedding"],
                 load_embedding_model_for_keybert_definition(outcomes["embedding"]))
        k == cache_resource(c["keybert"],
                 load_keybert_model_definition(e.ret, outcomes["keybert"]))
        p == cache_resource(c["pos"],
                 load_pos_model_definition(outcomes["pos"]))
        call == [sentiment |-> s, embedding |-> e, keybert |-> k, pos |-> p]
    IN  [handles |-> [l \in Loaders |-> call[l].ret],
         executed |-> [l \in Loaders |-> call[l].executed],
         loader_msgs |-> [l \in Loaders |-> call[l].msgs],
         sidebar |-> [l \in Loaders |-> SidebarReport(l, call[l].ret, e.ret)]]

\* ------------------------------------------ nlp_processing.py: the analyses
Call(model, text, behaviour) ==
    [model |-> model, text |-> text, raised |-> behaviour.raised,
     value |-> behaviour.value]

\* ret: the value returned; exc: an exception left the function
Outcome(ret, msgs, calls, exc) ==
    [ret |-> ret, msgs |-> msgs, calls |-> calls, exc |-> exc]

\* without the except clause: the exception of the pipeline leaves the function
analyze_sentiment_uncaught(text, model_instance, behaviour) ==
    IF model_instance = "None"
    THEN Outcome(<<>>, {"st.warning: sentiment model unavailable"}, <<>>, FALSE)
    ELSE IF behaviour.raised
    THEN Outcome(<<>>, {}, <<Call("sentiment", text, behaviour)>>, TRUE)
    ELSE Outcome(behaviour.value, {}, <<Call("sentiment", text, behaviour)>>, FALSE)

analyze_sentiment_execution(text, model_instance, behaviour) ==
    IF model_instance = "None"
    THEN Outcome(<<>>, {"st.warning: sentiment model unavailable"}, <<>>, FALSE)
    ELSE IF behaviour.raised
    THEN Outcome(<<>>, {"st.error: sentiment execution"},
                 <<Call("sentiment", text, behaviour)>>, FALSE)
    ELSE Outcome(behaviour.value, {}, <<Call("sentiment", text, behaviour)>>, FALSE)

\* f"query: {text}"
processed_text(text) == <<"query: ">> \o text

extract_keywords_text_execution(text, keybert_model_instance, behaviour) ==
    IF keybert_model_instance = "None"
    THEN Outcome(<<>>, {"st.warning: keyword model unavailable"}, <<>>, FALSE)
    ELSE IF behaviour.raised
    THEN Outcome(<<>>, {"st.error: keyword execution"},
                 <<Call("keyword", processed_text(text), behaviour)>>, FALSE)
    ELSE Outcome(behaviour.value, {},
                 <<Call("keyword", processed_text(text), behaviour)>>, FALSE)

\* the fine-grained tag is stored as the pos of the record
TokenRecordTagAsPos(token) ==
    [text |-> token.text, lemma |-> token.lemma_, pos |-> token.tag_,
     tag |-> token.tag_]

\* the dictionary appended for one token of the doc
TokenRecord(token) ==
    [text |-> token.text, lemma |-> token.lemma_, pos |-> token.pos_,
     tag |-> token.tag_]

\* without the except clause: the exception of the analyzer leaves the function
tag_pos_uncaught(text, pos_model_instance, behaviour) ==
    IF pos_model_instance = "None"
    THEN Outcome(<<>>, {"st.warning: POS model unavailable"}, <<>>, FALSE)
    ELSE IF behaviour.raised
    THEN Outcome(<<>>, {}, <<Call("pos", text, behaviour)>>, TRUE)
    ELSE Outcome([i \in 1..Len(behaviour.value) |-> TokenRecord(behaviour.value[i])],
                 {}, <<Call("pos", text, behaviour)>>, FALSE)

tag_pos_execution(text, pos_model_instance, behaviour) ==
    IF pos_model_instance = "None"
    THEN Outcome(<<>>, {"st.warning: POS model unavailable"}, <<>>, FALSE)
    ELSE IF behaviour.raised
    THEN Outcome(<<>>, {"st.error: POS execution"},
                 <<Call("pos", text, behaviour)>>, FALSE)
    ELSE Outcome([i \in 1..Len(behaviour.value) |-> TokenRecord(behaviour.value[i])],
                 {}, <<Call("pos", text, behaviour)>>, FALSE)

\* --------------------------------------------------------- app.py: the script
\* a file that fails to decode falls back to the text area
FinalInputTextFallsBack(text_area, file) ==
    IF file.present /\ ~decode_utf8(file.bytes).raised
    THEN [text |-> decode_utf8(file.bytes).value, msgs |-> {}]
    ELSE [text |-> text_area,
          msgs |-> IF file.present THEN {"st.error: file read"} ELSE {}]

\* final_input_text from the two input widgets
FinalInputText(text_area, file) ==
    IF file.present
    THEN LET d == decode_utf8(file.bytes)
         IN  IF d.raised
             THEN [text |-> <<>>, msgs |-> {"st.error: file read"}]
             ELSE [text |-> d.value, msgs |-> {}]
    ELSE IF text_area # <<>> THEN [text |-> text_area, msgs |-> {}]
    ELSE [text |-> <<>>, msgs |-> {}]

Session(s, k, p, from) ==
    [sentiment_results |-> s, keyword_results |-> k, pos_results |-> p,
     computed_from |-> from]

\* a result is kept only when it is not empty
AssignNonEmpty(sess, f, value, final) ==
    IF value = <<>> THEN sess
    ELSE CASE f = "sentiment" ->
                [sess EXCEPT !.sentiment_results = value, !.computed_from[f] = final]
           [] f = "keyword" ->
                [sess EXCEPT !.keyword_results = value, !.computed_from[f] = final]
           [] f = "pos" ->
                [sess EXCEPT !.pos_results = value, !.computed_from[f] = final]

\* st.session_state.<f>_results = <value returned for the text `final`>
Assign(sess, f, value, final) ==
    CASE f = "sentiment" ->
           [sess EXCEPT !.sentiment_results = value, !.computed_from[f] = final]
      [] f = "keyword" ->
           [sess EXCEPT !.keyword_results = value, !.computed_from[f] = final]
      [] f = "pos" ->
           [sess EXCEPT !.pos_results = value, !.computed_from[f] = final]

\* the body of `if st.button(...)`: statements after an exception that leaves a
\* call are not executed
ButtonHandler(final, handles, beh, sess) ==
    IF strip(final) # <<>>
    THEN LET s == analyze_sentiment_execution(final, handles["sentiment"], beh.sentiment)
             k == extract_keywords_text_execution(final, handles["keybert"], beh.keyword)
             p == tag_pos_execution(final, handles["pos"], beh.pos)
             ran_k == ~s.exc
             ran_p == ran_k /\ ~k.exc
             done == ran_p /\ ~p.exc
             s1 == IF ~s.exc THEN Assign(sess, "sentiment", s.ret, final) ELSE sess
             s2 == IF ran_k /\ ~k.exc THEN Assign(s1, "keyword", k.ret, final) ELSE s1
             s3 == IF done THEN Assign(s2, "pos", p.ret, final) ELSE s2
         IN  [session |-> s3,
              calls |-> s.calls \o (IF ran_k THEN k.calls ELSE <<>>)
                               \o (IF ran_p THEN p.calls ELSE <<>>),
              msgs |-> s.msgs \cup (IF ran_k THEN k.msgs ELSE {})
                              \cup (IF ran_p THEN p.msgs ELSE {})
                              \cup (IF done THEN {"st.success: analysis done"} ELSE {}),
              completed |-> done]
    ELSE [session |-> Session(<<>>, <<>>, <<>>, [f \in Features |-> final]),
          calls |-> <<>>,
          msgs |-> {"st.warning: no text entered"},
          completed |-> TRUE]

\* the record with the smallest score is taken
RECURSIVE MinFrom(_, _, _)
MinFrom(records, i, best) ==
    IF i > Len(records) THEN best
    ELSE MinFrom(records, i + 1,
                 IF records[i].score < best.score THEN records[i] ELSE best)

\* max(display_sent_results, key=lambda x: x['score']): the first of the
\* records with the largest score
RECURSIVE MaxFrom(_, _, _)
MaxFrom(records, i, best) ==
    IF i > Len(records) THEN best
    ELSE MaxFrom(records, i + 1,
                 IF records[i].score > best.score THEN records[i] ELSE best)

top_sentiment(records) == MaxFrom(records, 2, records[1])

\* the nested-list normalisation of the sentiment panel
display_sent_results(current_sent_results) ==
    IF Len(current_sent_results) > 0 /\ current_sent_results[1].kind = "list"
    THEN current_sent_results[1].items
    ELSE current_sent_results

Panel(kind, rows) == [kind |-> kind, rows |-> rows]
Hidden == Panel("hidden", <<>>)

SentimentPanel(model_instance, results) ==
    IF model_instance # "None" /\ results # <<>>
    THEN LET d == display_sent_results(results)
         IN  IF d = <<>> THEN Panel("no result", <<>>)
             ELSE Panel("main sentiment", <<top_sentiment(d)>>)
    ELSE Panel("info", <<>>)

KeywordPanel(model_instance, results) ==
    IF model_instance # "None" /\ results # <<>>
    THEN Panel("table", results)
    ELSE Panel("info", <<>>)

PosPanel(model_instance, results) ==
    IF model_instance # "None" /\ results # <<>>
    THEN Panel("dataframe", results)
    ELSE Panel("info", <<>>)

AnyResult(sess) ==
    sess.sentiment_results # <<>> \/ sess.keyword_results # <<>>
        \/ sess.pos_results # <<>>

\* the results display section
Display(final, handles, sess) ==
    IF strip(final) # <<>> /\ AnyResult(sess)
    THEN [section |-> "results",
          sentiment |-> SentimentPanel(handles["sentiment"], sess.sentiment_results),
          keyword |-> KeywordPanel(handles["keybert"], sess.keyword_results),
          pos |-> PosPanel(handles["pos"], sess.pos_results)]
    ELSE [section |-> IF strip(final) = <<>> /\ ~AnyResult(sess)
                      THEN "prompt" ELSE "none",
          sentiment |-> Hidden, keyword |-> Hidden, pos |-> Hidden]

NoPanels ==
    [section |-> "none", sentiment |-> Hidden, keyword |-> Hidden, pos |-> Hidden]

Count(b) == IF b THEN 1 ELSE 0

FailureMessages ==
    {"st.error: file read",
     "st.error: sentiment execution", "st.warning: sentiment model unavailable",
     "st.error: keyword execution", "st.warning: keyword model unavailable",
     "st.error: POS execution", "st.warning: POS model unavailable"}

\* the loader outcomes a rerun can meet: a cached loader's body does not run
MissOutcomes(c) ==
    IF \A l \in Loaders : c[l] # "miss"
    THEN {[l \in Loaders |-> "ok"]}
    ELSE {o \in [Loaders -> LoadOutcomes] :
            /\ \A l \in Loaders : c[l] # "miss" => o[l] = "ok"
            /\ \A l \in Loaders \ {"pos"} : o[l] # "OSError"}

\* the model behaviours a rerun can meet: only a Run on non-blank text calls
RunBehaviours(btn, final) ==
    IF btn /\ strip(final) # <<>> THEN Behaviours
    ELSE {[sentiment |-> Raises, keyword |-> Raises, pos |-> Raises]}

\* One run of app.py, top to bottom, with the widget values of this rerun.
Rerun(text_area, file, btn) ==
    \E outcomes \in MissOutcomes(cache) :
      LET load == LoadBlock(cache, outcomes)
          input == FinalInputText(text_area, file)
          sess == Session(sentiment_results, keyword_results, pos_results,
                          computed_from)
      IN  \E beh \in RunBehaviours(btn, input.text) :
            LET handler == IF btn
                           THEN ButtonHandler(input.text, load.handles, beh, sess)
                           ELSE [session |-> sess, calls |-> <<>>, msgs |-> {},
                                 completed |-> TRUE]
                new == handler.session
            IN  /\ cache' = load.handles
                /\ load_calls' =
                     [l \in Loaders |-> load_calls[l] + Count(load.executed[l])]
                /\ loader_reports' =
                     [l \in Loaders |->
                        loader_reports[l] + Cardinality(load.loader_msgs[l])]
                /\ sidebar_reports' =
                     [l \in Loaders |->
                        sidebar_reports[l] + Count(load.sidebar[l] # "success")]
                /\ reruns' = reruns + 1
                /\ input_text_area' = text_area
                /\ uploaded_file' = file
                /\ pressed' = btn
                /\ button_rendered' = TRUE
                /\ final_input_text' = input.text
                /\ sentiment_results' = new.sentiment_results
                /\ keyword_results' = new.keyword_results
                /\ pos_results' = new.pos_results
                /\ computed_from' = new.computed_from
                /\ call_log' = handler.calls
                /\ messages' = input.msgs \cup handler.msgs
                /\ panels' = IF handler.completed
                             THEN Display(input.text, load.handles, new)
                             ELSE NoPanels
                /\ had_failure' = (had_failure \/ (messages \cap FailureMessages) # {})
                /\ UNCHANGED <<kwVars, swVars, sentVars>>

AppInit ==
    /\ cache = [l \in Loaders |-> "miss"]
    /\ load_calls = [l \in Loaders |-> 0]
    /\ loader_reports = [l \in Loaders |-> 0]
    /\ sidebar_reports = [l \in Loaders |-> 0]
    /\ reruns = 0
    /\ input_text_area = <<>>
    /\ uploaded_file = NoFile
    /\ pressed = FALSE
    /\ button_rendered = FALSE
    /\ final_input_text = <<>>
    /\ sentiment_results = <<>>
    /\ keyword_results = <<>>
    /\ pos_results = <<>>
    /\ computed_from = [f \in Features |-> <<>>]
    /\ call_log = <<>>
    /\ messages = {}
    /\ panels = NoPanels
    /\ had_failure = FALSE

\* the first script run of a session
StartSession ==
    /\ reruns = 0
    /\ Rerun(<<>>, NoFile, FALSE)

EditText ==
    /\ reruns \in 1..(MaxReruns - 1)
    /\ \E t \in Texts \ {input_text_area} : Rerun(t, uploaded_file, FALSE)

UploadFile ==
    /\ reruns \in 1..(MaxReruns - 1)
    /\ \E b \in FileContents :
         /\ File(b) # uploaded_file
         /\ Rerun(input_text_area, File(b), FALSE)

RemoveFile ==
    /\ reruns \in 1..(MaxReruns - 1)
    /\ uploaded_file.present
    /\ Rerun(input_text_area, NoFile, FALSE)

PressRun ==
    /\ reruns \in 1..(MaxReruns - 1)
    /\ Rerun(input_text_area, uploaded_file, TRUE)

Init == AppInit /\ KwIdle /\ SwIdle /\ SentIdle

Next ==
    \/ StartSession
    \/ EditText
    \/ UploadFile
    \/ RemoveFile
    \/ PressRun

Spec == Init /\ [][Next]_vars

\* ------------------------------------------------------ properties of app.py
\* the model handle an analysis is given
FeatureModel(f) == IF f = "keyword" THEN "keybert" ELSE f

StoredResult(f) ==
    CASE f = "sentiment" -> sentiment_results
      [] f = "keyword" -> keyword_results
      [] f = "pos" -> pos_results

ShownPanel(f) ==
    CASE f = "sentiment" -> panels.sentiment
      [] f = "keyword" -> panels.keyword
      [] f = "pos" -> panels.pos

ExecutionError(f) ==
    CASE f = "sentiment" -> "st.error: sentiment execution"
      [] f = "keyword" -> "st.error: keyword execution"
      [] f = "pos" -> "st.error: POS execution"

Unavailable(f) ==
    CASE f = "sentiment" -> "st.warning: sentiment model unavailable"
      [] f = "keyword" -> "st.warning: keyword model unavailable"
      [] f = "pos" -> "st.warning: POS model unavailable"

IsCallOf(c, f) == c.model = f
CallsOf(f) == SelectSeq(call_log, LAMBDA c : IsCallOf(c, f))

\* what the model's answer to a call looks like once stored
AnswerOf(c) ==
    IF c.raised THEN <<>>
    ELSE IF c.model = "pos"
    THEN [i \in 1..Len(c.value) |->
            [text |-> c.value[i].text, lemma |-> c.value[i].lemma_,
             pos |-> c.value[i].pos_, tag |-> c.value[i].tag_]]
    ELSE c.value

\* the last rerun was a Run press on non-blank text
RanAnalyses == reruns >= 1 /\ pressed /\ strip(final_input_text) # <<>>

\* the model of f was called once in the last rerun and its answer is stored
CalledOnceAndStored(f) ==
    /\ Len(CallsOf(f)) = 1
    /\ StoredResult(f) = AnswerOf(CallsOf(f)[1])

Raised(f) == \E i \in 1..Len(call_log) : call_log[i].model = f /\ call_log[i].raised

\* C3: when the model call of an analysis raises during a Run, the exception is
\* caught and reported, the stored result of that feature is empty, and each of
\* the other two analyses whose model is available is still called and stores
\* its own result.
C3_ExceptionCaught ==
    RanAnalyses =>
        \A f \in Features :
            Raised(f) =>
                /\ StoredResult(f) = <<>>
                /\ ExecutionError(f) \in messages
                /\ \A g \in Features \ {f} :
                      cache[FeatureModel(g)] # "None" => CalledOnceAndStored(g)

C3_Witness ==
    /\ RanAnalyses
    /\ Raised("keyword")
    /\ ~Raised("sentiment") /\ sentiment_results # <<>>
    /\ ~Raised("pos") /\ pos_results # <<>>

\* C4: an analysis whose model handle is None is skipped in a Run without any
\* model call, its stored result is empty, every analysis whose model is
\* available is called, and the script runs to its end; the keyword model is
\* None whenever the embedding model is.
C4_UnavailableSkipped ==
    /\ reruns >= 1 =>
          /\ button_rendered
          /\ cache["embedding"] = "None" => cache["keybert"] = "None"
    /\ RanAnalyses =>
          /\ "st.success: analysis done" \in messages
          /\ \A f \in Features :
                IF cache[FeatureModel(f)] = "None"
                THEN /\ CallsOf(f) = <<>>
                     /\ StoredResult(f) = <<>>
                     /\ Unavailable(f) \in messages
                ELSE CalledOnceAndStored(f)

C4_Witness ==
    /\ RanAnalyses
    /\ cache["embedding"] = "None"
    /\ cache["sentiment"] = "model"
    /\ sentiment_results # <<>>
    /\ keyword_results = <<>>

\* C5 as stated: a failed load is reported exactly once however many reruns
\* follow.
C5_ReportedOnce ==
    \A l \in Loaders : cache[l] = "None" => sidebar_reports[l] = 1

\* C5 as amended: each loader body runs once, in the first rerun, and with it
\* the message it emits on failure; the sidebar report of a failed load is
\* emitted once in every rerun.
C5_LoadedOnceReportedEachRerun ==
    reruns >= 1 =>
        \A l \in Loaders :
            /\ load_calls[l] = 1
            /\ cache[l] # "miss"
            /\ loader_reports[l] = Count(cache[l] = "None")
            /\ sidebar_reports[l] = IF cache[l] = "None" THEN reruns ELSE 0

C5_Witness ==
    /\ reruns >= 3
    /\ cache["pos"] = "None"
    /\ cache["embedding"] = "None"
    /\ cache["sentiment"] = "model"

ShowsResult(f) == panels.section = "results" /\ ShownPanel(f).kind \notin {"info", "hidden"}

\* C6 as stated: whenever result panels are shown, every result shown was
\* computed from the input text of that rerun.
C6_ShownFromCurrentText ==
    \A f \in Features : ShowsResult(f) => computed_from[f] = final_input_text

\* C6 as amended: in a rerun in which Run was pressed, every result shown was
\* computed from the input text of that rerun (a rerun without a Run press
\* shows the results the last Run stored).
C6_ShownFromTextOfRun ==
    pressed => \A f \in Features : ShowsResult(f) => computed_from[f] = final_input_text

C6_Witness ==
    /\ pressed
    /\ reruns >= 5
    /\ had_failure
    /\ \A f \in Features : ShowsResult(f)

\* C7: after every rerun the Run button has been rendered; a model is called
\* only in a Run on non-blank text, where each available model is called
\* exactly once and its answer is stored.
C7_UsableAfterFailure ==
    reruns >= 1 =>
        /\ button_rendered
        /\ \A f \in Features :
              IF RanAnalyses /\ cache[FeatureModel(f)] # "None"
              THEN CalledOnceAndStored(f)
              ELSE CallsOf(f) = <<>>

C7_Witness ==
    /\ had_failure
    /\ RanAnalyses
    /\ messages \cap FailureMessages = {}
    /\ \A f \in Features : Len(CallsOf(f)) = 1 /\ StoredResult(f) # <<>>

UndecodableUpload == uploaded_file.present /\ decode_utf8(uploaded_file.bytes).raised

\* C8: with an uploaded file that is not valid UTF-8 the error is reported and
\* the input text is empty, whatever the text area holds; a Run in that state
\* calls no model and leaves the three stored results empty.
C8_DecodeFailure ==
    (reruns >= 1 /\ UndecodableUpload) =>
        /\ final_input_text = <<>>
        /\ "st.error: file read" \in messages
        /\ pressed =>
              /\ call_log = <<>>
              /\ sentiment_results = <<>>
              /\ keyword_results = <<>>
              /\ pos_results = <<>>

C8_Witness ==
    /\ UndecodableUpload
    /\ pressed
    /\ strip(input_text_area) # <<>>
    /\ had_failure

\* ------------------------------------------ frequency-based keyword extractor
\* the first "-"-delimited segment of a label: pos.split("-")[0]
RECURSIVE coarse_category(_)
coarse_category(pos) ==
    IF pos = <<>> \/ Head(pos) = "-" THEN <<>>
    ELSE <<Head(pos)>> \o coarse_category(Tail(pos))

\* the surface texts of the tokens whose coarse category is allowed, in order
RECURSIVE matching_texts(_, _)
matching_texts(tokens, allowed) ==
    IF tokens = <<>> THEN <<>>
    ELSE (IF coarse_category(Head(tokens).pos) \in allowed
          THEN <<Head(tokens).text>> ELSE <<>>)
         \o matching_texts(Tail(tokens), allowed)

Occurrences(texts, t) == Cardinality({i \in 1..Len(texts) : texts[i] = t})

\* the running multiset: the distinct texts in the order first added, each
\* with its count
RECURSIVE counter(_, _)
counter(texts, seen) ==
    IF texts = <<>> THEN <<>>
    ELSE IF Head(texts) \in seen THEN counter(Tail(texts), seen)
    ELSE <<[text |-> Head(texts), count |-> 1 + Occurrences(Tail(texts), Head(texts))]>>
         \o counter(Tail(texts), seen \cup {Head(texts)})

\* an entry goes in front of the entries it ties with
RECURSIVE insert_before_equal(_, _)
insert_before_equal(sorted, e) ==
    IF sorted = <<>> THEN <<e>>
    ELSE IF Head(sorted).count > e.count
    THEN <<Head(sorted)>> \o insert_before_equal(Tail(sorted), e)
    ELSE <<e>> \o sorted

\* an entry goes behind every entry whose count is not smaller
RECURSIVE insert_by_count(_, _)
insert_by_count(sorted, e) ==
    IF sorted = <<>> THEN <<e>>
    ELSE IF Head(sorted).count >= e.count
    THEN <<Head(sorted)>> \o insert_by_count(Tail(sorted), e)
    ELSE <<e>> \o sorted

\* descending count, entries of equal count in the order they were added
RECURSIVE most_common_from(_, _)
most_common_from(entries, sorted) ==
    IF entries = <<>> THEN sorted
    ELSE most_common_from(Tail(entries), insert_by_count(sorted, Head(entries)))

most_common(entries, n) ==
    LET sorted == most_common_from(entries, <<>>)
    IN  SubSeq(sorted, 1, IF n < Len(sorted) THEN n ELSE Len(sorted))

extract_keywords_by_frequency(tokens, top_n, allowed_pos) ==
    most_common(counter(matching_texts(tokens, allowed_pos), {}), top_n)

Surfaces == {"x", "y", "z"}
DocTokens ==
    {Token(t, t, l[1], l[2]) :
        t \in Surfaces,
        l \in {<<UDNoun, TagNoun>>, <<UDNounPath, TagNoun>>, <<UDVerb, TagVerb>>}}
Categories == {UDNoun, UDVerb, coarse_category(TagVerb)}

KwInit ==
    /\ kw_doc \in SeqsUpTo(DocTokens, MaxTokens)
    /\ kw_top_n \in 1..MaxTopN
    /\ kw_allowed \in SUBSET Categories
    /\ kw_output = <<>>
    /\ kw_done = FALSE

\* the token records of the POS tagger go through the extractor
ExtractKeywords ==
    /\ ~kw_done
    /\ kw_output' = extract_keywords_by_frequency(
                        [i \in 1..Len(kw_doc) |-> TokenRecord(kw_doc[i])],
                        kw_top_n, kw_allowed)
    /\ kw_done' = TRUE
    /\ UNCHANGED <<kw_doc, kw_top_n, kw_allowed, appVars, swVars, sentVars>>

InitKeywords == AppInit /\ SwIdle /\ SentIdle /\ KwInit

SpecKeywords == InitKeywords /\ [][ExtractKeywords]_vars

\* the tokens of the input that count: coarse category of pos allowed
Counted(i) == coarse_category(kw_doc[i].pos_) \in kw_allowed
CountedTexts == {kw_doc[i].text : i \in {j \in 1..Len(kw_doc) : Counted(j)}}
FirstCounted(t) ==
    CHOOSE i \in 1..Len(kw_doc) :
        /\ Counted(i) /\ kw_doc[i].text = t
        /\ \A j \in 1..(i - 1) : ~(Counted(j) /\ kw_doc[j].text = t)

\* C1: the output has at most top_n entries and at most one per distinct
\* matching surface text, counts do not increase along it, and entries of equal
\* count stand in the order their text was first counted in the input.
C1_RankedOutput ==
    kw_done =>
        /\ Len(kw_output) <= kw_top_n
        /\ Len(kw_output) <= Cardinality(CountedTexts)
        /\ \A i, j \in 1..Len(kw_output) :
              i < j =>
                /\ kw_output[i].count >= kw_output[j].count
                /\ kw_output[i].text \in CountedTexts
                /\ kw_output[j].text \in CountedTexts
                /\ kw_output[i].count = kw_output[j].count =>
                      FirstCounted(kw_output[i].text) < FirstCounted(kw_output[j].text)

C1_Witness ==
    /\ kw_done
    /\ Cardinality(CountedTexts) > kw_top_n
    /\ Len(kw_output) = 2
    /\ kw_output[1].count = kw_output[2].count

\* C2: a surface text is in the output only if a token of the tagger's output
\* with that text has the first "-"-segment of its pos in the allowed set, and
\* its count is the number of such tokens.
C2_OnlyAllowedCategories ==
    kw_done =>
        \A k \in 1..Len(kw_output) :
            /\ \E i \in 1..Len(kw_doc) :
                  kw_doc[i].text = kw_output[k].text /\ Counted(i)
            /\ kw_output[k].count =
                  Cardinality({i \in 1..Len(kw_doc) :
                                  kw_doc[i].text = kw_output[k].text /\ Counted(i)})

C2_Witness ==
    /\ kw_done
    /\ kw_output # <<>>
    /\ \E i \in 1..Len(kw_doc) :
          /\ ~Counted(i)
          /\ coarse_category(kw_doc[i].tag_) \in kw_allowed
          /\ \E k \in 1..Len(kw_output) : kw_output[k].text = kw_doc[i].text
    /\ \E i \in 1..Len(kw_doc) :
          Counted(i) /\ kw_doc[i].pos_ # coarse_category(kw_doc[i].pos_)

\* ------------------------------------------------------------ stop-word loader
default_stopwords_for_fallback ==
    << <<"kore">>, <<"sore">>, <<"are">>, <<"kono">>, <<"sono">>, <<"ano">>,
       <<"watashi">>, <<"anata">>, <<"kare">>, <<"kanojo">>, <<"desu">>,
       <<"masu">>, <<"mashita">>, <<"suru">>, <<"iru">>, <<"aru">>, <<"no">>,
       <<"wa">>, <<"ga">>, <<"wo">>, <<"ni">>, <<"he">>, <<"to">>, <<"mo">>,
       <<"ya">>, <<"de">> >>

\* [line.strip() for line in f if line.strip()]: each line read ends with its
\* newline
RECURSIVE stripped_lines(_)
stripped_lines(lines) ==
    IF lines = <<>> THEN <<>>
    ELSE (IF strip(Head(lines) \o <<Newline>>) # <<>>
          THEN <<strip(Head(lines) \o <<Newline>>)>> ELSE <<>>)
         \o stripped_lines(Tail(lines))

Range(q) == {q[i] : i \in 1..Len(q)}

\* list(set(words)): every word once, in an order the set decides
ListsOfSet(S) ==
    {q \in [1..Cardinality(S) -> S] : \A i, j \in 1..Cardinality(S) : q[i] = q[j] => i = j}

StopwordsReturn(value, msgs) == [raised |-> FALSE, value |-> value, msgs |-> msgs]

\* the words are returned as read, without set()
load_stopwords_as_read(file) ==
    IF file.status = "missing"
    THEN {StopwordsReturn(default_stopwords_for_fallback, {"st.warning: stop-word file not found"})}
    ELSE IF file.status = "unreadable"
    THEN {StopwordsReturn(default_stopwords_for_fallback, {"st.error: stop-word file read"})}
    ELSE IF stripped_lines(file.lines) = <<>>
    THEN {StopwordsReturn(default_stopwords_for_fallback, {"st.info: stop-word file empty"})}
    ELSE {StopwordsReturn(stripped_lines(file.lines), {})}

\* the values the function can return for the file at filepath
load_stopwords_from_file_definition(file) ==
    IF file.status = "missing"
    THEN {StopwordsReturn(default_stopwords_for_fallback, {"st.warning: stop-word file not found"})}
    ELSE IF file.status = "unreadable"
    THEN {StopwordsReturn(default_stopwords_for_fallback, {"st.error: stop-word file read"})}
    ELSE IF stripped_lines(file.lines) = <<>>
    THEN {StopwordsReturn(default_stopwords_for_fallback, {"st.info: stop-word file empty"})}
    ELSE {StopwordsReturn(q, {}) : q \in ListsOfSet(Range(stripped_lines(file.lines)))}

FileLines == SeqsUpTo(Chars, MaxLineLen)

SwInit ==
    /\ sw_file \in
          {[status |-> "missing", lines |-> <<>>]}
          \cup [status : {"ok", "unreadable"}, lines : SeqsUpTo(FileLines, MaxLines)]
    /\ sw_result = [raised |-> FALSE, value |-> <<>>, msgs |-> {}]
    /\ sw_done = FALSE

LoadStopwords ==
    /\ ~sw_done
    /\ sw_result' \in load_stopwords_from_file_definition(sw_file)
    /\ sw_done' = TRUE
    /\ UNCHANGED <<sw_file, appVars, kwVars, sentVars>>

InitStopwords == AppInit /\ KwIdle /\ SentIdle /\ SwInit

SpecStopwords == InitStopwords /\ [][LoadStopwords]_vars

NonBlank(line) == \E i \in 1..Len(line) : line[i] \notin {" ", Newline}
NonBlankLines == {i \in 1..Len(sw_file.lines) : NonBlank(sw_file.lines[i])}

\* C9: for a readable file with a non-blank line the function returns the
\* distinct stripped non-blank lines, each once; for a missing file, a file
\* without a non-blank line or a read error it returns the fallback list; it
\* does not raise and the list returned is not empty.
C9_StopwordsLoaded ==
    sw_done =>
        /\ ~sw_result.raised
        /\ sw_result.value # <<>>
        /\ IF sw_file.status = "ok" /\ NonBlankLines # {}
           THEN /\ Range(sw_result.value) = {strip(sw_file.lines[i]) : i \in NonBlankLines}
                /\ \A i, j \in 1..Len(sw_result.value) :
                      sw_result.value[i] = sw_result.value[j] => i = j
           ELSE sw_result.value = default_stopwords_for_fallback

C9_Witness ==
    /\ sw_done
    /\ sw_file.status = "ok"
    /\ Len(sw_file.lines) = 2
    /\ sw_file.lines[1] # sw_file.lines[2]
    /\ NonBlankLines = {1, 2}
    /\ Len(sw_result.value) = 1
    /\ sw_result.value[1] # sw_file.lines[1]

\* ------------------------------------------------------------ sentiment panel
ClassLabels == <<"positive", "negative", "neutral", "mixed", "other", "unknown">>

ScoreLists ==
    UNION {{[i \in 1..k |-> Dict(ClassLabels[i], sc[i])] : sc \in [1..k -> 0..MaxScore]} :
              k \in 0..MaxClasses}

StoredSentiments == ScoreLists \cup {<<List(l)>> : l \in ScoreLists}

SentInit ==
    /\ sent_text \in {<<"a">>, <<" ">>}
    /\ sent_handle \in {"model", "None"}
    /\ sent_stored \in StoredSentiments
    /\ sent_panel = Hidden
    /\ sent_done = FALSE

\* the results display section with the stored sentiment result
ShowSentiment ==
    /\ ~sent_done
    /\ sent_panel' =
          Display(sent_text,
                  [l \in Loaders |-> IF l = "sentiment" THEN sent_handle ELSE "model"],
                  Session(sent_stored, <<>>, <<>>, [f \in Features |-> sent_text])).sentiment
    /\ sent_done' = TRUE
    /\ UNCHANGED <<sent_text, sent_handle, sent_stored, appVars, kwVars, swVars>>

InitSentiment == AppInit /\ KwIdle /\ SwIdle /\ SentInit

SpecSentiment == InitSentiment /\ [][ShowSentiment]_vars

Nested == sent_stored # <<>> /\ sent_stored[1].kind = "list"
Normalised == IF Nested THEN sent_stored[1].items ELSE sent_stored

\* C10: when the sentiment panel is drawn for a stored result, the list used is
\* the inner list of a nested result and the stored list otherwise; an empty
\* list gives the "no result" message, and otherwise the main sentiment is a
\* record of that list with no record above it in score.
C10_SentimentPanel ==
    (sent_done /\ strip(sent_text) # <<>> /\ sent_handle # "None" /\ sent_stored # <<>>) =>
        IF Normalised = <<>>
        THEN sent_panel = Panel("no result", <<>>)
        ELSE /\ sent_panel.kind = "main sentiment"
             /\ Len(sent_panel.rows) = 1
             /\ \E i \in 1..Len(Normalised) : Normalised[i] = sent_panel.rows[1]
             /\ \A i \in 1..Len(Normalised) : Normalised[i].score <= sent_panel.rows[1].score

C10_Witness ==
    /\ sent_done
    /\ Nested
    /\ Len(Normalised) = 2
    /\ sent_panel.kind = "main sentiment"
    /\ sent_panel.rows[1] = Normalised[2]
    /\ Normalised[1].score < Normalised[2].score

====
